---- MODULE Spec2Model ----
(***************************************************************************)
(* Fluxity v1-core: the stream / vesting contract of                       *)
(* src/src/base/contract.rs.                                               *)
(*                                                                         *)
(* State: the persistent stream records keyed by id, the latest-stream-id  *)
(* counter, and the ledger timestamp.  One action per entry point          *)
(* (create_stream, create_vesting, cancel_stream, withdraw_stream,         *)
(* get_stream, get_latest_stream_id) plus the ledger clock.  Every         *)
(* invocation is atomic (the host runs one invocation at a time and rolls  *)
(* back a panicking one), so an action is a whole invocation.              *)
(*                                                                         *)
(* `last` records the latest invocation as its caller observes it: the     *)
(* arguments, the result, and the ordered list of storage writes, token    *)
(* transfers and events it issued.  `ledger` totals the token movements    *)
(* per stream.                                                             *)
(*                                                                         *)
(* The modules utils, storage, types, token and events are not part of the *)
(* source at hand; the definitions standing for them follow the            *)
(* specification document (sections 4.1, 4.2 and 4.3).                     *)
(***************************************************************************)
EXTENDS Integers, Sequences, FiniteSets, TLC

\* Bounds of the model.
MaxTime == 5
MaxAmount == 4
MaxStreams == 1
MaxIds == 2

VARIABLES streams, latest_stream_id, now, last, ledger

vars == <<streams, latest_stream_id, now, last, ledger>>

Addr == {"alice", "bob"}

\* Period lengths of the vesting rates, in ledger time units.
Rates == {2}

\* The rate field a linear stream carries (unused by linear accrual).
StreamRates == {2}

(***************************************************************************)
(* utils: the amount calculator (specification 4.1).                       *)
(***************************************************************************)
Min(a, b) == IF a < b THEN a ELSE b

Max(a, b) == IF a > b THEN a ELSE b

CeilDiv(a, b) == (a + b - 1) \div b

calculate_stream_amounts(start_date, end_date, cliff_date, current_date, amount) ==
  LET receiver_amount ==
        IF current_date <= start_date THEN 0
        ELSE IF current_date >= end_date THEN amount
        ELSE (amount * (current_date - start_date)) \div (end_date - start_date)
  IN [sender_amount |-> amount - receiver_amount,
      receiver_amount |-> receiver_amount]

calculate_vesting_amounts(start_date, end_date, cliff_date, current_date, rate, amount) ==
  LET total_periods == CeilDiv(end_date - start_date, rate)
      elapsed_periods ==
        IF current_date <= start_date THEN 0
        ELSE Max(0, Min(total_periods, (current_date - start_date) \div rate))
      receiver_amount ==
        IF current_date <= start_date THEN 0
        ELSE IF current_date >= end_date THEN amount
        ELSE (amount * elapsed_periods) \div total_periods
  IN [sender_amount |-> amount - receiver_amount,
      receiver_amount |-> receiver_amount]

(***************************************************************************)
(* types: StreamInputType / VestingInputType into StreamType               *)
(* (specification 4.3, Create: withdrawn = 0, is_cancelled = false).       *)
(***************************************************************************)
stream_from_input(params) ==
  [sender |-> params.sender, receiver |-> params.receiver,
   amount |-> params.amount,
   start_date |-> params.start_date, cliff_date |-> params.cliff_date,
   end_date |-> params.end_date, cancellable_date |-> params.cancellable_date,
   withdrawn |-> 0, is_cancelled |-> FALSE, cancelled_date |-> 0,
   is_vesting |-> FALSE, rate |-> params.rate]

stream_from_vesting_input(params) ==
  [stream_from_input(params) EXCEPT !.is_vesting = TRUE]

(***************************************************************************)
(* What an invocation returns and issues.                                  *)
(***************************************************************************)
\* One storage write, token movement or event, in the order issued.
Effect(kind, id, party, amt) == [kind |-> kind, id |-> id, party |-> party, amt |-> amt]

\* Result<_, CustomErrors>: Ok(value), Err(error); Panic: the invocation is
\* aborted by the host (unwrap of a missing record, require_auth failure).
Ok(value, stream, effects) ==
  [status |-> "Ok", error |-> "", value |-> value, stream |-> stream, effects |-> effects]

Err(error, stream) ==
  [status |-> "Err", error |-> error, value |-> <<>>, stream |-> stream, effects |-> <<>>]

Panic(why, stream) ==
  [status |-> "Panic", error |-> why, value |-> <<>>, stream |-> stream, effects |-> <<>>]

\* The absence of a stream record (storage get returning None).
NoStream == [exists |-> FALSE]

(***************************************************************************)
(* create_stream / create_vesting.                                         *)
(***************************************************************************)
\* Variant: the cliff is only checked against start_date.
create_stream_validate_cliff_open(params) ==
  IF params.amount <= 0 THEN "InvalidAmount"
  ELSE IF params.sender = params.receiver THEN "InvalidReceiver"
  ELSE IF params.start_date >= params.end_date THEN "InvalidStartDate"
  ELSE IF params.cancellable_date > params.end_date THEN "InvalidCancellableDate"
  ELSE IF params.cliff_date < params.start_date THEN "InvalidCliffDate"
  ELSE "Valid"

create_stream_validate(params) ==
  IF params.amount <= 0 THEN "InvalidAmount"
  ELSE IF params.sender = params.receiver THEN "InvalidReceiver"
  ELSE IF params.start_date >= params.end_date THEN "InvalidStartDate"
  ELSE IF params.cancellable_date > params.end_date THEN "InvalidCancellableDate"
  ELSE IF params.cliff_date < params.start_date \/ params.cliff_date > params.end_date
    THEN "InvalidCliffDate"
  ELSE "Valid"

\* Variant: the latest stream id is not advanced.
create_stream_commit_same_id(params, id) ==
  Ok(<<id>>, stream_from_input(params),
     << Effect("transfer_from", id, params.sender, params.amount),
        Effect("set_stream", id, "", 0),
        Effect("stream_created_event", id, "", 0) >>)

create_stream_commit(params, id) ==
  Ok(<<id>>, stream_from_input(params),
     << Effect("transfer_from", id, params.sender, params.amount),
        Effect("set_stream", id, "", 0),
        Effect("increment_latest_stream_id", id, "", id + 1),
        Effect("stream_created_event", id, "", 0) >>)

create_stream_call(caller, params, id) ==
  IF caller # params.sender THEN Panic("Unauthorized", NoStream)
  ELSE IF create_stream_validate(params) # "Valid"
    THEN Err(create_stream_validate(params), NoStream)
  ELSE create_stream_commit(params, id)

create_vesting_validate(params) ==
  IF params.amount <= 0 THEN "InvalidAmount"
  ELSE IF params.sender = params.receiver THEN "InvalidReceiver"
  ELSE IF params.start_date >= params.end_date THEN "InvalidStartDate"
  ELSE IF params.cancellable_date > params.end_date THEN "InvalidCancellableDate"
  ELSE IF params.cliff_date < params.start_date \/ params.cliff_date > params.end_date
    THEN "InvalidCliffDate"
  ELSE "Valid"

create_vesting_commit(params, id) ==
  Ok(<<id>>, stream_from_vesting_input(params),
     << Effect("transfer_from", id, params.sender, params.amount),
        Effect("set_stream", id, "", 0),
        Effect("increment_latest_stream_id", id, "", id + 1),
        Effect("vesting_created_event", id, "", 0) >>)

create_vesting_call(caller, params, id) ==
  IF caller # params.sender THEN Panic("Unauthorized", NoStream)
  ELSE IF create_vesting_validate(params) # "Valid"
    THEN Err(create_vesting_validate(params), NoStream)
  ELSE create_vesting_commit(params, id)

(***************************************************************************)
(* cancel_stream.                                                          *)
(***************************************************************************)
\* Variant: the is_cancelled check is missing.
cancel_stream_guard_recancel(stream, current_date) ==
  IF stream.end_date <= current_date THEN "StreamAlreadySettled"
  ELSE IF stream.cancellable_date > current_date THEN "StreamNotCancellableYet"
  ELSE "Proceed"

\* Variant: a stream can still be cancelled at its end_date.
cancel_stream_guard_at_end(stream, current_date) ==
  IF stream.is_cancelled THEN "StreamAlreadyCanceled"
  ELSE IF stream.end_date < current_date THEN "StreamAlreadySettled"
  ELSE IF stream.cancellable_date > current_date THEN "StreamNotCancellableYet"
  ELSE "Proceed"

\* Variant: the end_date check comes before the is_cancelled check.
cancel_stream_guard_settled_first(stream, current_date) ==
  IF stream.end_date <= current_date THEN "StreamAlreadySettled"
  ELSE IF stream.is_cancelled THEN "StreamAlreadyCanceled"
  ELSE IF stream.cancellable_date > current_date THEN "StreamNotCancellableYet"
  ELSE "Proceed"

\* Variant: a stream can be cancelled whatever its end_date.
cancel_stream_guard_unsettled(stream, current_date) ==
  IF stream.is_cancelled THEN "StreamAlreadyCanceled"
  ELSE IF stream.cancellable_date > current_date THEN "StreamNotCancellableYet"
  ELSE "Proceed"

cancel_stream_guard(stream, current_date) ==
  IF stream.is_cancelled THEN "StreamAlreadyCanceled"
  ELSE IF stream.end_date <= current_date THEN "StreamAlreadySettled"
  ELSE IF stream.cancellable_date > current_date THEN "StreamNotCancellableYet"
  ELSE "Proceed"

\* Variant: nothing counts as accrued to the receiver up to the cliff.
cancel_stream_amounts_after_cliff(stream, current_date) ==
  IF current_date <= stream.cliff_date
    THEN [sender_amount |-> stream.amount, receiver_amount |-> 0]
  ELSE IF stream.is_vesting
    THEN calculate_vesting_amounts(stream.start_date, stream.end_date, stream.cliff_date,
                                   current_date, stream.rate, stream.amount)
    ELSE calculate_stream_amounts(stream.start_date, stream.end_date, stream.cliff_date,
                                  current_date, stream.amount)

cancel_stream_amounts(stream, current_date) ==
  IF stream.is_vesting
    THEN calculate_vesting_amounts(stream.start_date, stream.end_date, stream.cliff_date,
                                   current_date, stream.rate, stream.amount)
    ELSE calculate_stream_amounts(stream.start_date, stream.end_date, stream.cliff_date,
                                  current_date, stream.amount)

\* Variant: withdrawn is set to the receiver's payout, not to the accrued total.
cancel_stream_settle_payout(stream, amounts, current_date) ==
  [sender_amount |-> amounts.sender_amount,
   receiver_amount |-> amounts.receiver_amount - stream.withdrawn,
   stream |-> [stream EXCEPT !.is_cancelled = TRUE,
                             !.cancelled_date = current_date,
                             !.withdrawn = amounts.receiver_amount - stream.withdrawn]]

\* Variant: the receiver is paid the accrued amount without what was withdrawn
\* being subtracted.
cancel_stream_settle_accrued(stream, amounts, current_date) ==
  [sender_amount |-> amounts.sender_amount,
   receiver_amount |-> amounts.receiver_amount,
   stream |-> [stream EXCEPT !.is_cancelled = TRUE,
                             !.cancelled_date = current_date,
                             !.withdrawn = amounts.receiver_amount]]

\* sender_amount, receiver_amount and the record as updated.
cancel_stream_settle(stream, amounts, current_date) ==
  [sender_amount |-> amounts.sender_amount,
   receiver_amount |-> amounts.receiver_amount - stream.withdrawn,
   stream |-> [stream EXCEPT !.is_cancelled = TRUE,
                             !.cancelled_date = current_date,
                             !.withdrawn = amounts.receiver_amount]]

\* Variant: the two payouts go to the wrong parties.
cancel_stream_effects_swapped(stream, id, sender_amount, receiver_amount) ==
  << Effect("set_stream", id, "", 0) >>
  \o (IF receiver_amount > 0
        THEN << Effect("transfer", id, stream.sender, receiver_amount) >> ELSE << >>)
  \o (IF sender_amount > 0
        THEN << Effect("transfer", id, stream.receiver, sender_amount) >> ELSE << >>)
  \o << Effect("stream_cancelled_event", id, "", 0) >>

cancel_stream_effects(stream, id, sender_amount, receiver_amount) ==
  << Effect("set_stream", id, "", 0) >>
  \o (IF receiver_amount > 0
        THEN << Effect("transfer", id, stream.receiver, receiver_amount) >> ELSE << >>)
  \o (IF sender_amount > 0
        THEN << Effect("transfer", id, stream.sender, sender_amount) >> ELSE << >>)
  \o << Effect("stream_cancelled_event", id, "", 0) >>

cancel_stream_call(stream, id, caller, current_date) ==
  IF caller # stream.sender THEN Panic("Unauthorized", stream)
  ELSE IF cancel_stream_guard(stream, current_date) # "Proceed"
    THEN Err(cancel_stream_guard(stream, current_date), stream)
  ELSE LET s == cancel_stream_settle(stream, cancel_stream_amounts(stream, current_date),
                                     current_date)
       IN Ok(<<s.sender_amount, s.receiver_amount>>, s.stream,
             cancel_stream_effects(s.stream, id, s.sender_amount, s.receiver_amount))

(***************************************************************************)
(* withdraw_stream.                                                        *)
(***************************************************************************)
\* Variant: the cliff gate opens at cliff_date instead of after it.
withdraw_stream_guard_at_cliff(stream, caller, amount, current_date) ==
  IF amount < 0 THEN "AmountUnderflows"
  ELSE IF stream.is_cancelled THEN "StreamIsCanceled"
  ELSE IF caller # stream.receiver THEN "Unauthorized"
  ELSE IF current_date <= stream.start_date THEN "StreamNotStartedYet"
  ELSE IF current_date < stream.cliff_date THEN "Cliff"
  ELSE "Proceed"

\* Variant: the receiver's authorization is not required.
withdraw_stream_guard_anyone(stream, caller, amount, current_date) ==
  IF amount < 0 THEN "AmountUnderflows"
  ELSE IF stream.is_cancelled THEN "StreamIsCanceled"
  ELSE IF current_date <= stream.start_date THEN "StreamNotStartedYet"
  ELSE IF current_date <= stream.cliff_date THEN "Cliff"
  ELSE "Proceed"

\* The checks before the amounts are computed, in the order of the code;
\* require_auth sits between the cancelled check and the date checks.
withdraw_stream_guard(stream, caller, amount, current_date) ==
  IF amount < 0 THEN "AmountUnderflows"
  ELSE IF stream.is_cancelled THEN "StreamIsCanceled"
  ELSE IF caller # stream.receiver THEN "Unauthorized"
  ELSE IF current_date <= stream.start_date THEN "StreamNotStartedYet"
  ELSE IF current_date <= stream.cliff_date THEN "Cliff"
  ELSE "Proceed"

withdraw_stream_amounts(stream, current_date) ==
  IF stream.is_vesting
    THEN calculate_vesting_amounts(stream.start_date, stream.end_date, stream.cliff_date,
                                   current_date, stream.rate, stream.amount)
    ELSE calculate_stream_amounts(stream.start_date, stream.end_date, stream.cliff_date,
                                  current_date, stream.amount)

\* Variant: the request is never compared with what is withdrawable.
withdraw_stream_exceeds_unchecked(withdrawable, amount) == FALSE

\* if withdrawable < amount { return Err(..GreaterThanWithdrawable) }
withdraw_stream_exceeds(withdrawable, amount) == withdrawable < amount

\* Variant: every accepted request is served with all that is withdrawable.
withdraw_stream_amount_to_transfer_all(withdrawable, amount) == withdrawable

\* Variant: the amount = 0 sentinel is not replaced.
withdraw_stream_amount_to_transfer_asked(withdrawable, amount) == amount

\* amount == 0 stands for everything withdrawable.
withdraw_stream_amount_to_transfer(withdrawable, amount) ==
  IF amount = 0 THEN withdrawable ELSE amount

\* Variant: the tokens are transferred before the record is stored.
withdraw_stream_effects_pay_first(stream, id, amount_to_transfer) ==
  << Effect("transfer", id, stream.receiver, amount_to_transfer),
     Effect("set_stream", id, "", 0),
     Effect("stream_withdrawn_event", id, "", 0) >>

withdraw_stream_effects(stream, id, amount_to_transfer) ==
  << Effect("set_stream", id, "", 0),
     Effect("transfer", id, stream.receiver, amount_to_transfer),
     Effect("stream_withdrawn_event", id, "", 0) >>

\* Variant: the record is updated and stored before the request is compared
\* with what is withdrawable.
withdraw_stream_transfer_store_first(stream, id, amount, current_date) ==
  LET amounts == withdraw_stream_amounts(stream, current_date)
      withdrawable == amounts.receiver_amount - stream.withdrawn
      amount_to_transfer == withdraw_stream_amount_to_transfer(withdrawable, amount)
      updated == [stream EXCEPT !.withdrawn = stream.withdrawn + amount_to_transfer]
  IN IF withdraw_stream_exceeds(withdrawable, amount)
       THEN [Err("SpecifiedAmountIsGreaterThanWithdrawable", updated)
               EXCEPT !.effects = << Effect("set_stream", id, "", 0) >>]
       ELSE Ok(<<amount_to_transfer>>, updated,
               withdraw_stream_effects(stream, id, amount_to_transfer))

\* Variant: what was withdrawn before is not subtracted from the accrued amount.
withdraw_stream_transfer_double_count(stream, id, amount, current_date) ==
  LET amounts == withdraw_stream_amounts(stream, current_date)
      withdrawable == amounts.receiver_amount
      amount_to_transfer == withdraw_stream_amount_to_transfer(withdrawable, amount)
  IN IF withdraw_stream_exceeds(withdrawable, amount)
       THEN Err("SpecifiedAmountIsGreaterThanWithdrawable", stream)
       ELSE Ok(<<amount_to_transfer>>,
               [stream EXCEPT !.withdrawn = stream.withdrawn + amount_to_transfer],
               withdraw_stream_effects(stream, id, amount_to_transfer))

\* Variant: the transfer is made but withdrawn is not updated.
withdraw_stream_transfer_unrecorded(stream, id, amount, current_date) ==
  LET amounts == withdraw_stream_amounts(stream, current_date)
      withdrawable == amounts.receiver_amount - stream.withdrawn
      amount_to_transfer == withdraw_stream_amount_to_transfer(withdrawable, amount)
  IN IF withdraw_stream_exceeds(withdrawable, amount)
       THEN Err("SpecifiedAmountIsGreaterThanWithdrawable", stream)
       ELSE Ok(<<amount_to_transfer>>, stream,
               withdraw_stream_effects(stream, id, amount_to_transfer))

withdraw_stream_transfer(stream, id, amount, current_date) ==
  LET amounts == withdraw_stream_amounts(stream, current_date)
      withdrawable == amounts.receiver_amount - stream.withdrawn
      amount_to_transfer == withdraw_stream_amount_to_transfer(withdrawable, amount)
  IN IF withdraw_stream_exceeds(withdrawable, amount)
       THEN Err("SpecifiedAmountIsGreaterThanWithdrawable", stream)
       ELSE Ok(<<amount_to_transfer>>,
               [stream EXCEPT !.withdrawn = stream.withdrawn + amount_to_transfer],
               withdraw_stream_effects(stream, id, amount_to_transfer))

withdraw_stream_call(stream, id, caller, amount, current_date) ==
  LET g == withdraw_stream_guard(stream, caller, amount, current_date)
  IN IF g = "Unauthorized" THEN Panic("Unauthorized", stream)
     ELSE IF g = "Cliff" THEN Ok(<<0>>, stream, << >>)
     ELSE IF g # "Proceed" THEN Err(g, stream)
     ELSE withdraw_stream_transfer(stream, id, amount, current_date)

(***************************************************************************)
(* storage: the record store and the id counter (specification 4.2);       *)
(* token: the totals moved per stream.                                     *)
(***************************************************************************)
get_stream_by_id(store, id) == IF id \in DOMAIN store THEN store[id] ELSE NoStream

set_stream(store, id, stream) ==
  [i \in DOMAIN store \cup {id} |-> IF i = id THEN stream ELSE store[i]]

HasEffect(effects, kind) == \E i \in 1..Len(effects) : effects[i].kind = kind

RECURSIVE Moved(_, _, _, _)
\* The total the effects move for stream id, by kind, from / to party.
Moved(effects, kind, id, party) ==
  IF effects = << >> THEN 0
  ELSE (IF Head(effects).kind = kind /\ Head(effects).id = id /\ Head(effects).party = party
          THEN Head(effects).amt ELSE 0)
       + Moved(Tail(effects), kind, id, party)

NoMoves == [deposited |-> 0, to_receiver |-> 0, to_sender |-> 0]

token_moves(book, store, effects) ==
  [i \in DOMAIN store |->
     LET old == IF i \in DOMAIN book THEN book[i] ELSE NoMoves
     IN [deposited |-> old.deposited + Moved(effects, "transfer_from", i, store[i].sender),
         to_receiver |-> old.to_receiver + Moved(effects, "transfer", i, store[i].receiver),
         to_sender |-> old.to_sender + Moved(effects, "transfer", i, store[i].sender)]]

(***************************************************************************)
(* The invocations.                                                        *)
(***************************************************************************)
NoParams ==
  [sender |-> "", receiver |-> "", amount |-> 0, start_date |-> 0, cliff_date |-> 0,
   end_date |-> 0, cancellable_date |-> 0, rate |-> 0]

NoCall ==
  [op |-> "none", id |-> 0, caller |-> "", amount |-> 0, params |-> NoParams,
   time |-> 0, before |-> NoStream, status |-> "", error |-> "", value |-> << >>,
   effects |-> << >>]

\* The host commits what an invocation issued: the record write, the counter,
\* the token movements; an Err or a Panic issued nothing.
Commit(op, id, caller, amount, params, out) ==
  /\ last = NoCall
  /\ streams' = IF HasEffect(out.effects, "set_stream")
                  THEN set_stream(streams, id, out.stream) ELSE streams
  /\ latest_stream_id' = IF HasEffect(out.effects, "increment_latest_stream_id")
                           THEN id + 1 ELSE latest_stream_id
  /\ ledger' = token_moves(ledger, streams', out.effects)
  /\ last' = [op |-> op, id |-> id, caller |-> caller, amount |-> amount,
              params |-> params, time |-> now,
              before |-> get_stream_by_id(streams, id),
              status |-> out.status, error |-> out.error, value |-> out.value,
              effects |-> out.effects]
  /\ UNCHANGED now

create_stream(caller, params) ==
  /\ latest_stream_id < MaxIds
  /\ Commit("create_stream", latest_stream_id, caller, 0, params,
            create_stream_call(caller, params, latest_stream_id))

create_vesting(caller, params) ==
  /\ latest_stream_id < MaxIds
  /\ Commit("create_vesting", latest_stream_id, caller, 0, params,
            create_vesting_call(caller, params, latest_stream_id))

cancel_stream(caller, id) ==
  /\ caller \in Addr
  /\ Commit("cancel_stream", id, caller, 0, NoParams,
         IF id \in DOMAIN streams
           THEN cancel_stream_call(streams[id], id, caller, now)
           ELSE Panic("unwrap", NoStream))

withdraw_stream(caller, id, amount) ==
  /\ caller \in Addr
  /\ Commit("withdraw_stream", id, caller, amount, NoParams,
         IF id \in DOMAIN streams
           THEN withdraw_stream_call(streams[id], id, caller, amount, now)
           ELSE Panic("unwrap", NoStream))

get_stream(id) ==
  /\ id \in Nat
  /\ Commit("get_stream", id, "", 0, NoParams,
         IF id \in DOMAIN streams
           THEN Ok(<<streams[id]>>, streams[id], << >>)
           ELSE Err("StreamNotFound", NoStream))

get_latest_stream_id ==
  /\ latest_stream_id \in Nat
  /\ Commit("get_latest_stream_id", 0, "", 0, NoParams,
         Ok(<<latest_stream_id>>, NoStream, << >>))

\* The host hands the result to the caller: the invocation is over.
Return ==
  /\ last # NoCall
  /\ last' = NoCall
  /\ UNCHANGED <<streams, latest_stream_id, now, ledger>>

\* The ledger closes between invocations: the timestamp moves forward.
Tick(t) ==
  /\ last = NoCall
  /\ t > now
  /\ now' = t
  /\ UNCHANGED <<streams, latest_stream_id, last, ledger>>

(***************************************************************************)
(* The inputs the invocations are tried with.                              *)
(***************************************************************************)
Parties == {<<"alice", "bob">>, <<"alice", "alice">>}

Input(p, a, s, c, e, k, r) ==
  [sender |-> p[1], receiver |-> p[2], amount |-> a, start_date |-> s,
   cliff_date |-> c, end_date |-> e, cancellable_date |-> k, rate |-> r]

\* Schedules <<cliff_date, cancellable_date>> that pass validation with
\* start_date 1 and end_date 4: the cliff at the start, inside and at the end;
\* cancellable before the start, at it, inside and at the end.
StreamSchedules == {<<1, 1>>, <<2, 0>>, <<4, 2>>, <<2, 4>>}

VestingSchedules == {<<1, 0>>, <<2, 2>>, <<4, 1>>, <<1, 4>>}

ValidParams(schedules, rates) ==
  { Input(<<"alice", "bob">>, MaxAmount, 1, s[1], 4, s[2], r) :
    s \in schedules, r \in rates }

\* Inputs that break the validation rules one at a time and several at once.
InvalidParams(rates) ==
  { Input(p, a, s, c, 4, k, r) :
    p \in Parties, a \in {0, MaxAmount}, s \in {1, 4}, c \in {0, 2, 5},
    k \in {2, 5}, r \in rates }

Params(schedules, rates) == ValidParams(schedules, rates) \cup InvalidParams(rates)

Requests == {-1, 0, 1, 2, MaxAmount + 1}

Ids == 0..(MaxStreams - 1)

Times == 0..MaxTime

\* The inputs of a creation while fewer than MaxStreams streams exist.
Room(inputs) == IF latest_stream_id < MaxStreams THEN inputs ELSE {}

Init ==
  /\ streams = << >>
  /\ latest_stream_id = 0
  /\ now = 0
  /\ last = NoCall
  /\ ledger = << >>

Next ==
  \/ \E caller \in Addr, params \in Room(Params(StreamSchedules, StreamRates)) :
       create_stream(caller, params)
  \/ \E caller \in Addr, params \in Room(Params(VestingSchedules, Rates)) :
       create_vesting(caller, params)
  \/ \E caller \in Addr, id \in Ids : cancel_stream(caller, id)
  \/ \E caller \in Addr, id \in Ids, amount \in Requests : withdraw_stream(caller, id, amount)
  \/ \E id \in Ids : get_stream(id)
  \/ get_latest_stream_id
  \/ Return
  \/ \E t \in Times : Tick(t)

Spec == Init /\ [][Next]_vars

(***************************************************************************)
(* The same contract under several creations: up to MaxIds streams, each   *)
(* from a small set of inputs.                                             *)
(***************************************************************************)
\* One valid schedule for each kind of stream, and one invalid input.
IdsStreamParams ==
  ValidParams({<<2, 2>>}, StreamRates) \cup {Input(<<"alice", "bob">>, 0, 1, 2, 4, 2, 2)}

IdsVestingParams ==
  ValidParams({<<1, 1>>}, Rates) \cup {Input(<<"alice", "alice">>, MaxAmount, 1, 1, 4, 1, 2)}

IdsRequests == {0, 1}

NextIds ==
  \/ \E caller \in Addr, params \in IdsStreamParams : create_stream(caller, params)
  \/ \E caller \in Addr, params \in IdsVestingParams : create_vesting(caller, params)
  \/ \E caller \in Addr, id \in 0..(MaxIds - 1) : cancel_stream(caller, id)
  \/ \E caller \in Addr, id \in 0..(MaxIds - 1), amount \in IdsRequests :
       withdraw_stream(caller, id, amount)
  \/ \E id \in 0..(MaxIds - 1) : get_stream(id)
  \/ get_latest_stream_id
  \/ Return
  \/ \E t \in Times : Tick(t)

SpecIds == Init /\ [][NextIds]_vars

(***************************************************************************)
(* Vocabulary of the properties.                                           *)
(***************************************************************************)
\* receiver_amount of the accrual function the record selects, at time t.
Accrued(stream, t) ==
  IF stream.is_vesting
    THEN calculate_vesting_amounts(stream.start_date, stream.end_date, stream.cliff_date,
                                   t, stream.rate, stream.amount).receiver_amount
    ELSE calculate_stream_amounts(stream.start_date, stream.end_date, stream.cliff_date,
                                  t, stream.amount).receiver_amount

\* The token transfers out of the contract among the effects, in order.
Transfers(effects) == SelectSeq(effects, LAMBDA e : e.kind = "transfer")

\* The latest invocation was op on a stored stream.
OnStream(op) == last.op = op /\ last.before # NoStream

\* It carried the authorization the operation requires.
ByReceiver == last.caller = last.before.receiver

BySender == last.caller = last.before.sender

\* The linear stream of the specification's examples:
\* amount 1000, start 0, end 1000, cliff 0.
ExampleStream ==
  stream_from_input(Input(<<"alice", "bob">>, 1000, 0, 0, 1000, 0, 2))

(***************************************************************************)
(* C1.  Every stored stream satisfies 0 <= withdrawn <= amount, after any  *)
(* sequence of create_stream, create_vesting, withdraw_stream and          *)
(* cancel_stream calls under a non-decreasing ledger timestamp.            *)
(***************************************************************************)
C1_WithdrawnWithinAmount ==
  \A id \in DOMAIN streams :
    /\ 0 <= streams[id].withdrawn
    /\ streams[id].withdrawn <= streams[id].amount

\* A cancellation has just settled a stream that had been partly withdrawn.
C1_Witness ==
  /\ OnStream("cancel_stream") /\ last.status = "Ok"
  /\ last.before.withdrawn > 0
  /\ streams[last.id].withdrawn > last.before.withdrawn
  /\ streams[last.id].withdrawn < streams[last.id].amount

(***************************************************************************)
(* C2.  withdrawn is monotonically non-decreasing: no withdraw_stream or   *)
(* cancel_stream call, successful or failed, at any non-decreasing ledger  *)
(* time lowers the stored withdrawn of a stream; in particular the         *)
(* assignment withdrawn = receiver_amount of cancel_stream never sets it   *)
(* below its previous value.                                               *)
(***************************************************************************)
C2_Step ==
  \A id \in DOMAIN streams :
    /\ id \in DOMAIN streams'
    /\ streams'[id].withdrawn >= streams[id].withdrawn

C2_WithdrawnNeverDecreases == [][C2_Step]_vars

\* cancel_stream has just overwritten a positive withdrawn: the accrued total
\* it stored has grown past what had been withdrawn.
C2_Witness ==
  /\ OnStream("cancel_stream") /\ last.status = "Ok"
  /\ last.before.withdrawn > 0
  /\ last.value[2] > 0
  /\ streams[last.id].withdrawn = last.before.withdrawn + last.value[2]

(***************************************************************************)
(* C3.  Cancelled is terminal: once a cancel_stream call has succeeded on  *)
(* a stream, is_cancelled stays true and cancelled_date and withdrawn (the *)
(* whole record) never change again; every later withdraw_stream on that   *)
(* id with a non-negative amount fails with StreamIsCanceled and every     *)
(* later cancel_stream (admitted by the sender's authorization) fails with *)
(* StreamAlreadyCanceled; neither issues a write, a transfer or an event,  *)
(* so a stream is cancelled, and paid out by cancellation, at most once.   *)
(***************************************************************************)
C3_Frozen ==
  \A id \in DOMAIN streams :
    streams[id].is_cancelled => id \in DOMAIN streams' /\ streams'[id] = streams[id]

C3_Rejected ==
  /\ (OnStream("withdraw_stream") /\ last.before.is_cancelled /\ last.amount >= 0)
       => last.status = "Err" /\ last.error = "StreamIsCanceled" /\ last.effects = << >>
  /\ (OnStream("cancel_stream") /\ last.before.is_cancelled /\ BySender)
       => last.status = "Err" /\ last.error = "StreamAlreadyCanceled" /\ last.effects = << >>
  /\ (OnStream("cancel_stream") /\ last.before.is_cancelled)
       => last.status # "Ok" /\ last.effects = << >>

C3_CancelledIsTerminal == [][C3_Frozen /\ C3_Rejected']_vars

\* A second cancel_stream by the sender, inside the cancellation window, on a
\* stream already cancelled.
C3_Witness ==
  /\ OnStream("cancel_stream") /\ last.before.is_cancelled /\ BySender
  /\ last.before.cancellable_date <= last.time /\ last.time < last.before.end_date
  /\ last.time > last.before.cancelled_date
  /\ last.error = "StreamAlreadyCanceled"

(***************************************************************************)
(* C4 as claimed.  FullySettled is terminal: on a stream that is not       *)
(* cancelled and has withdrawn == amount, every further withdraw_stream    *)
(* (the amount = 0 sentinel included) and every further cancel_stream is   *)
(* rejected with an error and writes no record, transfers no tokens and    *)
(* emits no event.                                                         *)
(***************************************************************************)
FullySettled(stream) == ~stream.is_cancelled /\ stream.withdrawn = stream.amount

C4_AsClaimed ==
  /\ (OnStream("withdraw_stream") /\ FullySettled(last.before) /\ ByReceiver)
       => last.status = "Err" /\ last.effects = << >>
  /\ (OnStream("cancel_stream") /\ FullySettled(last.before) /\ BySender)
       => last.status = "Err" /\ last.effects = << >>

(***************************************************************************)
(* C4 as amended.  On a stream that is not cancelled and has               *)
(* withdrawn == amount: cancel_stream fails with StreamAlreadySettled and  *)
(* withdraw_stream with a positive amount fails with                       *)
(* SpecifiedAmountIsGreaterThanWithdrawable, both without any write,       *)
(* transfer or event; withdraw_stream with amount = 0 succeeds, returns 0, *)
(* rewrites the record unchanged, issues a transfer of 0 tokens and emits  *)
(* the withdrawal event.  No tokens move and the record keeps its value in *)
(* every case.                                                             *)
(***************************************************************************)
C4_SettledMovesNothing ==
  /\ (OnStream("cancel_stream") /\ FullySettled(last.before) /\ BySender)
       => /\ last.status = "Err" /\ last.error = "StreamAlreadySettled"
          /\ last.effects = << >>
  /\ (OnStream("withdraw_stream") /\ FullySettled(last.before) /\ ByReceiver)
       => /\ streams[last.id] = last.before
          /\ \A i \in 1..Len(last.effects) : last.effects[i].amt = 0
          /\ last.amount < 0 =>
               last.status = "Err" /\ last.error = "AmountUnderflows"
          /\ last.amount > 0 =>
               /\ last.status = "Err"
               /\ last.error = "SpecifiedAmountIsGreaterThanWithdrawable"
               /\ last.effects = << >>
          /\ last.amount = 0 =>
               /\ last.status = "Ok" /\ last.value = <<0>>
               /\ last.effects = withdraw_stream_effects(last.before, last.id, 0)

\* withdraw_stream(id, 0) by the receiver on a fully settled stream.
C4_Witness ==
  /\ OnStream("withdraw_stream") /\ FullySettled(last.before) /\ ByReceiver
  /\ last.amount = 0
  /\ last.status = "Ok"

(***************************************************************************)
(* C5.  A withdraw_stream or cancel_stream call that returns an error      *)
(* (AmountUnderflows, StreamIsCanceled, StreamNotStartedYet,               *)
(* SpecifiedAmountIsGreaterThanWithdrawable, StreamAlreadyCanceled,        *)
(* StreamAlreadySettled, StreamNotCancellableYet) leaves every stream      *)
(* record and the id counter as before the call and causes no token        *)
(* transfer and no event.                                                  *)
(***************************************************************************)
WithdrawErrors ==
  {"AmountUnderflows", "StreamIsCanceled", "StreamNotStartedYet",
   "SpecifiedAmountIsGreaterThanWithdrawable"}

CancelErrors ==
  {"StreamAlreadyCanceled", "StreamAlreadySettled", "StreamNotCancellableYet"}

C5_Step ==
  (last'.op \in {"withdraw_stream", "cancel_stream"} /\ last'.status = "Err")
    => /\ streams' = streams
       /\ latest_stream_id' = latest_stream_id
       /\ ledger' = ledger
       /\ last'.effects = << >>
       /\ last'.op = "withdraw_stream" => last'.error \in WithdrawErrors
       /\ last'.op = "cancel_stream" => last'.error \in CancelErrors

C5_ErrorsChangeNothing == [][C5_Step]_vars

\* The last check of withdraw_stream, made after the amounts are computed,
\* has just rejected a request on a stream with a positive withdrawable amount.
C5_Witness ==
  /\ OnStream("withdraw_stream") /\ last.status = "Err"
  /\ last.error = "SpecifiedAmountIsGreaterThanWithdrawable"
  /\ Accrued(last.before, last.time) > last.before.withdrawn
  /\ last.before.withdrawn > 0

(***************************************************************************)
(* C6.  create_stream and create_vesting called with amount <= 0,          *)
(* sender == receiver, start_date >= end_date, cancellable_date > end_date *)
(* or cliff_date outside [start_date, end_date] fail with InvalidAmount,   *)
(* InvalidReceiver, InvalidStartDate, InvalidCancellableDate or            *)
(* InvalidCliffDate respectively (the first failing check in that order),  *)
(* and then no token transfer occurs, no record is stored, the id counter  *)
(* is not advanced and no event is emitted; consequently every stored      *)
(* stream has amount > 0, start_date < end_date,                           *)
(* start_date <= cliff_date <= end_date and cancellable_date <= end_date.  *)
(***************************************************************************)
Creation == last.op \in {"create_stream", "create_vesting"}

\* The error the claim names for params, "" for none.
C6_Expected(params) ==
  IF params.amount <= 0 THEN "InvalidAmount"
  ELSE IF params.sender = params.receiver THEN "InvalidReceiver"
  ELSE IF params.start_date >= params.end_date THEN "InvalidStartDate"
  ELSE IF params.cancellable_date > params.end_date THEN "InvalidCancellableDate"
  ELSE IF ~(params.start_date <= params.cliff_date /\ params.cliff_date <= params.end_date)
    THEN "InvalidCliffDate"
  ELSE ""

C6_InvalidCreationRejected ==
  /\ (Creation /\ last.caller = last.params.sender /\ C6_Expected(last.params) # "")
       => /\ last.status = "Err"
          /\ last.error = C6_Expected(last.params)
  /\ (Creation /\ last.status = "Err")
       => /\ last.error = C6_Expected(last.params)
          /\ last.effects = << >>
          /\ last.id \notin DOMAIN streams
          /\ latest_stream_id = last.id
          /\ last.id \notin DOMAIN ledger
  /\ \A id \in DOMAIN streams :
       /\ streams[id].amount > 0
       /\ streams[id].sender # streams[id].receiver
       /\ streams[id].start_date < streams[id].end_date
       /\ streams[id].start_date <= streams[id].cliff_date
       /\ streams[id].cliff_date <= streams[id].end_date
       /\ streams[id].cancellable_date <= streams[id].end_date

\* create_vesting has just rejected an input whose only fault is its cliff,
\* which lies past end_date.
C6_Witness ==
  /\ last.op = "create_vesting" /\ last.status = "Err"
  /\ last.error = "InvalidCliffDate"
  /\ last.params.cliff_date > last.params.end_date
  /\ last.params.cancellable_date <= last.params.end_date

(***************************************************************************)
(* C7.  withdraw_stream never clamps a positive request: on a stream that  *)
(* is not cancelled, at now > cliff_date, a request with                   *)
(* amount > receiver_amount(now) - withdrawn fails with                    *)
(* SpecifiedAmountIsGreaterThanWithdrawable and leaves withdrawn unchanged *)
(* (e.g. 600 at now = 500 on a linear stream with amount 1000, start 0,    *)
(* end 1000, cliff 0), while a request with                                *)
(* 0 < amount <= receiver_amount(now) - withdrawn succeeds, returns        *)
(* exactly amount, transfers exactly amount to the receiver and increases  *)
(* withdrawn by exactly amount.                                            *)
(***************************************************************************)
\* An admitted withdraw_stream past the cliff of a stream not cancelled.
OpenWithdrawal ==
  /\ OnStream("withdraw_stream") /\ ByReceiver
  /\ ~last.before.is_cancelled
  /\ last.time > last.before.cliff_date

Withdrawable == Accrued(last.before, last.time) - last.before.withdrawn

C7_Example ==
  LET out == withdraw_stream_call(ExampleStream, 0, "bob", 600, 500)
  IN /\ out.status = "Err"
     /\ out.error = "SpecifiedAmountIsGreaterThanWithdrawable"
     /\ out.stream.withdrawn = ExampleStream.withdrawn
     /\ out.effects = << >>

C7_PositiveRequestNotClamped ==
  /\ (OpenWithdrawal /\ last.amount > Withdrawable /\ last.amount > 0)
       => /\ last.status = "Err"
          /\ last.error = "SpecifiedAmountIsGreaterThanWithdrawable"
          /\ streams[last.id] = last.before
          /\ last.effects = << >>
  /\ (OpenWithdrawal /\ 0 < last.amount /\ last.amount <= Withdrawable)
       => /\ last.status = "Ok"
          /\ last.value = <<last.amount>>
          /\ Transfers(last.effects)
               = << Effect("transfer", last.id, last.before.receiver, last.amount) >>
          /\ streams[last.id]
               = [last.before EXCEPT !.withdrawn = last.before.withdrawn + last.amount]
  /\ C7_Example

\* A request of less than what is withdrawable has been served, after an
\* earlier withdrawal.
C7_Witness ==
  /\ OpenWithdrawal /\ last.status = "Ok"
  /\ 0 < last.amount /\ last.amount < Withdrawable
  /\ last.before.withdrawn > 0

(***************************************************************************)
(* C8.  withdraw_stream with amount = 0 on a stream that is not cancelled, *)
(* at now > cliff_date, withdraws everything withdrawable: it returns      *)
(* receiver_amount(now) - withdrawn_before, transfers exactly that to the  *)
(* receiver and leaves withdrawn == receiver_amount(now); on the linear    *)
(* stream with amount 1000, start 0, end 1000, cliff 0 and no prior        *)
(* withdrawal, at now = 500 it returns 500 and sets withdrawn = 500.       *)
(***************************************************************************)
C8_Example ==
  LET out == withdraw_stream_call(ExampleStream, 0, "bob", 0, 500)
  IN /\ out.status = "Ok"
     /\ out.value = <<500>>
     /\ out.stream.withdrawn = 500
     /\ Transfers(out.effects) = << Effect("transfer", 0, "bob", 500) >>

C8_ZeroWithdrawsAll ==
  /\ (OpenWithdrawal /\ last.amount = 0)
       => /\ last.status = "Ok"
          /\ last.value = <<Withdrawable>>
          /\ Transfers(last.effects)
               = << Effect("transfer", last.id, last.before.receiver, Withdrawable) >>
          /\ streams[last.id]
               = [last.before EXCEPT !.withdrawn = Accrued(last.before, last.time)]
  /\ C8_Example

\* withdraw_stream(id, 0) has paid the positive rest after an earlier
\* withdrawal, before the stream's end.
C8_Witness ==
  /\ OpenWithdrawal /\ last.amount = 0 /\ last.status = "Ok"
  /\ last.before.withdrawn > 0
  /\ last.value[1] > 0
  /\ last.time < last.before.end_date

(***************************************************************************)
(* C9.  Cliff gate on withdrawal: for a stream that is not cancelled and   *)
(* any non-negative amount, withdraw_stream at start_date < now <=         *)
(* cliff_date returns success with value 0 and changes nothing (record     *)
(* unchanged, no token transfer, no withdrawal event), and at              *)
(* now <= start_date it fails with StreamNotStartedYet; hence no tokens    *)
(* reach the receiver through withdraw_stream at any now <= cliff_date.    *)
(***************************************************************************)
GatedWithdrawal ==
  /\ OnStream("withdraw_stream") /\ ByReceiver
  /\ ~last.before.is_cancelled
  /\ last.amount >= 0
  /\ last.time <= last.before.cliff_date

C9_CliffGate ==
  /\ (GatedWithdrawal /\ last.time > last.before.start_date)
       => /\ last.status = "Ok" /\ last.value = <<0>>
          /\ last.effects = << >>
          /\ streams[last.id] = last.before
  /\ (GatedWithdrawal /\ last.time <= last.before.start_date)
       => /\ last.status = "Err" /\ last.error = "StreamNotStartedYet"
  /\ (OnStream("withdraw_stream") /\ last.time <= last.before.cliff_date)
       => /\ Transfers(last.effects) = << >>
          /\ streams[last.id] = last.before

\* A positive request exactly at the cliff of a stream that has accrued is
\* answered with 0.
C9_Witness ==
  /\ GatedWithdrawal /\ last.status = "Ok"
  /\ last.time = last.before.cliff_date
  /\ last.amount > 0
  /\ Accrued(last.before, last.time) >= last.amount

(***************************************************************************)
(* C10.  A successful cancel_stream at time now (cancellable_date <= now < *)
(* end_date, stream not cancelled) returns (sender_payout, receiver_payout)*)
(* with sender_payout = sender_amount(now) and receiver_payout =           *)
(* receiver_amount(now) - withdrawn_before, sets is_cancelled = true,      *)
(* cancelled_date = now and withdrawn = receiver_amount(now), transfers    *)
(* receiver_payout to the receiver and sender_payout to the sender only    *)
(* when each is positive, and satisfies sender_payout + receiver_payout +  *)
(* withdrawn_before == amount with both payouts >= 0; in particular        *)
(* cancelling a linear stream with cancellable_date == start_date at       *)
(* now == start_date with no prior withdrawal returns (amount, 0).         *)
(***************************************************************************)
Cancelled == OnStream("cancel_stream") /\ last.status = "Ok"

C10_Payouts(sender_payout, receiver_payout) ==
  (IF receiver_payout > 0
     THEN << Effect("transfer", last.id, last.before.receiver, receiver_payout) >>
     ELSE << >>)
  \o (IF sender_payout > 0
        THEN << Effect("transfer", last.id, last.before.sender, sender_payout) >>
        ELSE << >>)

C10_CancelSettles ==
  Cancelled =>
    LET accrued == Accrued(last.before, last.time)
        sender_payout == last.before.amount - accrued
        receiver_payout == accrued - last.before.withdrawn
    IN /\ ~last.before.is_cancelled
       /\ last.before.cancellable_date <= last.time
       /\ last.time < last.before.end_date
       /\ last.value = <<sender_payout, receiver_payout>>
       /\ streams[last.id] = [last.before EXCEPT !.is_cancelled = TRUE,
                                                 !.cancelled_date = last.time,
                                                 !.withdrawn = accrued]
       /\ Transfers(last.effects) = C10_Payouts(sender_payout, receiver_payout)
       /\ sender_payout >= 0 /\ receiver_payout >= 0
       /\ last.value[1] + last.value[2] + last.before.withdrawn = last.before.amount
       /\ (/\ ~last.before.is_vesting
           /\ last.before.cancellable_date = last.before.start_date
           /\ last.time = last.before.start_date
           /\ last.before.withdrawn = 0)
            => last.value = <<last.before.amount, 0>>

\* A cancellation that pays both parties after an earlier withdrawal.
C10_Witness ==
  /\ Cancelled
  /\ last.before.withdrawn > 0
  /\ last.value[1] > 0 /\ last.value[2] > 0

(***************************************************************************)
(* C11.  cancel_stream rejects, in this order of precedence: a stream      *)
(* already cancelled with StreamAlreadyCanceled; a stream with             *)
(* now >= end_date with StreamAlreadySettled; a stream with                *)
(* now < cancellable_date with StreamNotCancellableYet; it succeeds        *)
(* exactly when the stream is not cancelled and                            *)
(* cancellable_date <= now < end_date.  Every rejection leaves the record  *)
(* unchanged.                                                              *)
(***************************************************************************)
\* A cancel_stream admitted by the sender's authorization.
SenderCancels == OnStream("cancel_stream") /\ BySender

C11_CancelRejections ==
  SenderCancels =>
    /\ last.before.is_cancelled
         => last.status = "Err" /\ last.error = "StreamAlreadyCanceled"
    /\ (~last.before.is_cancelled /\ last.time >= last.before.end_date)
         => last.status = "Err" /\ last.error = "StreamAlreadySettled"
    /\ (/\ ~last.before.is_cancelled
        /\ last.time < last.before.end_date
        /\ last.time < last.before.cancellable_date)
         => last.status = "Err" /\ last.error = "StreamNotCancellableYet"
    /\ last.status = "Ok"
         <=> (/\ ~last.before.is_cancelled
              /\ last.before.cancellable_date <= last.time
              /\ last.time < last.before.end_date)
    /\ last.status = "Err"
         => streams[last.id] = last.before /\ last.effects = << >>

\* The sender cancels, past end_date, a stream that is already cancelled: both
\* of the first two rejections apply and the first one is returned.
C11_Witness ==
  /\ SenderCancels
  /\ last.before.is_cancelled
  /\ last.time >= last.before.end_date
  /\ last.error = "StreamAlreadyCanceled"

(***************************************************************************)
(* C12.  The id counter increases by exactly one on each successful        *)
(* create_stream or create_vesting and is unchanged by every other call    *)
(* (failed creations, withdraw_stream, cancel_stream, get_stream,          *)
(* get_latest_stream_id).  Each successful creation returns the counter    *)
(* value read before the call and stores the new record under that id, so  *)
(* the ids returned are pairwise distinct and strictly increasing and a    *)
(* creation never overwrites an existing record.                           *)
(***************************************************************************)
\* The record a successful creation stores for its input.
C12_Record(call) ==
  IF call.op = "create_vesting" THEN stream_from_vesting_input(call.params)
  ELSE stream_from_input(call.params)

C12_Step ==
  /\ (last'.op \in {"create_stream", "create_vesting"} /\ last'.status = "Ok")
       => /\ latest_stream_id' = latest_stream_id + 1
          /\ last'.value = <<latest_stream_id>>
          /\ latest_stream_id \notin DOMAIN streams
          /\ DOMAIN streams' = DOMAIN streams \cup {latest_stream_id}
          /\ streams'[latest_stream_id] = C12_Record(last')
          /\ \A id \in DOMAIN streams : streams'[id] = streams[id]
  /\ ~(last'.op \in {"create_stream", "create_vesting"} /\ last'.status = "Ok")
       => latest_stream_id' = latest_stream_id
  /\ DOMAIN streams' = 0..(latest_stream_id' - 1)

C12_IdsAdvanceByOne == [][C12_Step]_vars

\* A second creation has succeeded: it returned id 1, and the stream stored
\* under id 0, already partly withdrawn, is still there.
C12_Witness ==
  /\ Creation /\ last.status = "Ok"
  /\ last.value = <<1>>
  /\ latest_stream_id = 2
  /\ streams[0].withdrawn > 0
  /\ streams[1].withdrawn = 0

(***************************************************************************)
(* C13.  For a fixed non-cancelled stream and a fixed final time           *)
(* now > cliff_date, any sequence of successful positive withdrawals that  *)
(* ends with a successful withdraw_stream(id, 0) at now yields the same    *)
(* final withdrawn (= receiver_amount(now)) and the same total transferred *)
(* to the receiver as a single withdraw_stream(id, 0) at now.              *)
(***************************************************************************)
\* A withdraw_stream(id, 0) has just succeeded past the cliff.
ZeroWithdrawal ==
  /\ OnStream("withdraw_stream") /\ last.status = "Ok"
  /\ last.amount = 0
  /\ last.time > last.before.cliff_date

\* The same call on the stream as it was created, nothing withdrawn yet.
C13_Single ==
  withdraw_stream_call([last.before EXCEPT !.withdrawn = 0], last.id,
                       last.caller, 0, last.time)

C13_SplitWithdrawalsAgree ==
  ZeroWithdrawal =>
    /\ streams[last.id].withdrawn = Accrued(last.before, last.time)
    /\ ledger[last.id].to_receiver = Accrued(last.before, last.time)
    /\ C13_Single.status = "Ok"
    /\ C13_Single.stream.withdrawn = streams[last.id].withdrawn
    /\ Moved(C13_Single.effects, "transfer", last.id, last.before.receiver)
         = ledger[last.id].to_receiver

\* The final withdraw_stream(id, 0) follows earlier withdrawals and still
\* transfers something.
C13_Witness ==
  /\ ZeroWithdrawal
  /\ last.before.withdrawn > 0
  /\ last.value[1] > 0
  /\ last.time < last.before.end_date

(***************************************************************************)
(* C14.  Only the stream's sender can cancel it and only its receiver can  *)
(* withdraw from it: a cancel_stream or withdraw_stream not authorized by  *)
(* that party never writes a stream record, never transfers tokens and     *)
(* never emits an event; a create_stream or create_vesting not authorized  *)
(* by params.sender pulls no tokens and stores nothing.                    *)
(***************************************************************************)
\* The call lacks the authorization its operation requires.
Unauthorized(call) ==
  \/ /\ call.op = "cancel_stream" /\ call.before # NoStream
     /\ call.caller # call.before.sender
  \/ /\ call.op = "withdraw_stream" /\ call.before # NoStream
     /\ call.caller # call.before.receiver
  \/ /\ call.op \in {"create_stream", "create_vesting"}
     /\ call.caller # call.params.sender

C14_Step ==
  Unauthorized(last') =>
    /\ last'.status # "Ok"
    /\ last'.effects = << >>
    /\ streams' = streams
    /\ ledger' = ledger
    /\ latest_stream_id' = latest_stream_id

C14_OnlyAuthorizedPartiesAct == [][C14_Step]_vars

\* The sender asks for everything withdrawable from a stream that has tokens
\* to withdraw, and the call aborts.
C14_Witness ==
  /\ OnStream("withdraw_stream") /\ ~ByReceiver
  /\ last.amount = 0
  /\ ~last.before.is_cancelled
  /\ Accrued(last.before, last.time) > last.before.withdrawn
  /\ last.time > last.before.cliff_date
  /\ last.status = "Panic"
  /\ streams[last.id] = last.before

(***************************************************************************)
(* C15.  Every failure is surfaced to the caller as a typed error result:  *)
(* cancel_stream and withdraw_stream called with an id for which no record *)
(* exists return a typed stream-not-found error value (as get_stream       *)
(* returns StreamNotFound) rather than aborting, and leave all state       *)
(* unchanged.                                                              *)
(***************************************************************************)
\* The latest invocation was cancel_stream or withdraw_stream on an id with
\* no record.
OnMissingStream ==
  /\ last.op \in {"cancel_stream", "withdraw_stream"}
  /\ last.before = NoStream

C15_AsClaimed ==
  OnMissingStream =>
    /\ last.status = "Err"
    /\ last.error = "StreamNotFound"
    /\ last.effects = << >>

(***************************************************************************)
(* C16.  Persist-before-transfer ordering: within every successful         *)
(* withdraw_stream and cancel_stream the updated record is written before  *)
(* any token transfer out of the contract and the event is emitted only    *)
(* after all transfers; within a successful creation the order is: pull    *)
(* the deposit, store the record, advance the id counter, emit the event.  *)
(***************************************************************************)
\* The kinds of the effects, in order.
Kinds(effects) == [i \in 1..Len(effects) |-> effects[i].kind]

\* Every effect of kind first comes before every effect of kind then.
Precedes(effects, first, then) ==
  \A i, j \in 1..Len(effects) :
    (effects[i].kind = first /\ effects[j].kind = then) => i < j

C16_PersistBeforeTransfer ==
  /\ (last.op \in {"withdraw_stream", "cancel_stream"} /\ last.status = "Ok"
      /\ last.effects # << >>)
       => /\ Head(last.effects).kind = "set_stream"
          /\ Precedes(last.effects, "set_stream", "transfer")
          /\ last.effects[Len(last.effects)].kind
               = (IF last.op = "cancel_stream" THEN "stream_cancelled_event"
                  ELSE "stream_withdrawn_event")
          /\ \A i \in 2..(Len(last.effects) - 1) : last.effects[i].kind = "transfer"
  /\ (last.op = "withdraw_stream" /\ last.status = "Ok" /\ last.effects = << >>)
       => last.time <= last.before.cliff_date
  /\ (last.op = "cancel_stream" /\ last.status = "Ok") => last.effects # << >>
  /\ (last.op = "create_stream" /\ last.status = "Ok")
       => Kinds(last.effects) = << "transfer_from", "set_stream",
                                   "increment_latest_stream_id", "stream_created_event" >>
  /\ (last.op = "create_vesting" /\ last.status = "Ok")
       => Kinds(last.effects) = << "transfer_from", "set_stream",
                                   "increment_latest_stream_id", "vesting_created_event" >>

\* A withdrawal has just stored the record, paid the receiver and emitted its
\* event.
C16_Witness ==
  /\ OnStream("withdraw_stream") /\ last.status = "Ok"
  /\ Len(last.effects) = 3
  /\ last.effects[2].kind = "transfer" /\ last.effects[2].amt > 0
  /\ streams[last.id].withdrawn = last.before.withdrawn + last.effects[2].amt

(***************************************************************************)
(* C17.  Cliff asymmetry: a successful cancel_stream at a time with        *)
(* start_date < now <= cliff_date (and cancellable_date <= now < end_date) *)
(* pays the receiver the full accrued receiver_amount(now), which can be   *)
(* positive, although a withdraw_stream at the same time returns 0.        *)
(***************************************************************************)
\* A cancellation has just succeeded after the start and not past the cliff.
CancelledInCliff ==
  /\ Cancelled
  /\ last.before.start_date < last.time
  /\ last.time <= last.before.cliff_date

C17_CancelIgnoresCliff ==
  CancelledInCliff =>
    /\ last.before.cancellable_date <= last.time /\ last.time < last.before.end_date
    /\ last.before.withdrawn = 0
    /\ Moved(last.effects, "transfer", last.id, last.before.receiver)
         = Accrued(last.before, last.time)
    /\ ledger[last.id].to_receiver = Accrued(last.before, last.time)
    /\ streams[last.id].withdrawn = Accrued(last.before, last.time)
    /\ \A amount \in Requests \ {-1} :
         withdraw_stream_call(last.before, last.id, last.before.receiver, amount, last.time)
           = Ok(<<0>>, last.before, << >>)

\* Such a cancellation has paid the receiver a positive amount.
C17_Witness ==
  /\ CancelledInCliff
  /\ ledger[last.id].to_receiver > 0
  /\ ledger[last.id].to_receiver = Accrued(last.before, last.time)

(***************************************************************************)
(* C18.  FullySettled is reached only through withdraw_stream: every       *)
(* stream with is_cancelled has withdrawn < amount, and withdrawn ==       *)
(* amount can hold only in states whose latest observed time is            *)
(* >= end_date.                                                            *)
(***************************************************************************)
C18_SettledOnlyByWithdrawal ==
  \A id \in DOMAIN streams :
    /\ streams[id].is_cancelled => streams[id].withdrawn < streams[id].amount
    /\ streams[id].withdrawn = streams[id].amount
         => /\ now >= streams[id].end_date
            /\ ~streams[id].is_cancelled
            /\ ledger[id].to_sender = 0

\* A withdrawal has just taken the rest of a stream at its end.
C18_Witness ==
  /\ OnStream("withdraw_stream") /\ last.status = "Ok"
  /\ last.before.withdrawn > 0
  /\ last.before.withdrawn < last.before.amount
  /\ streams[last.id].withdrawn = streams[last.id].amount

(***************************************************************************)
(* C19.  Token conservation per stream: the total transferred to the       *)
(* receiver equals the stored withdrawn; the total transferred to the      *)
(* sender is 0 while the stream is not cancelled and amount - withdrawn    *)
(* once it is cancelled; so the contract holds amount - withdrawn for a    *)
(* non-cancelled stream and 0 after cancellation, and the total paid out   *)
(* never exceeds the deposit.                                              *)
(***************************************************************************)
\* What the contract still holds of the deposit of stream id.
Held(id) == ledger[id].deposited - ledger[id].to_receiver - ledger[id].to_sender

C19_Conservation ==
  /\ DOMAIN ledger = DOMAIN streams
  /\ \A id \in DOMAIN streams :
       /\ ledger[id].deposited = streams[id].amount
       /\ ledger[id].to_receiver = streams[id].withdrawn
       /\ ledger[id].to_sender
            = (IF streams[id].is_cancelled
                 THEN streams[id].amount - streams[id].withdrawn ELSE 0)
       /\ Held(id)
            = (IF streams[id].is_cancelled
                 THEN 0 ELSE streams[id].amount - streams[id].withdrawn)
       /\ ledger[id].to_receiver + ledger[id].to_sender <= ledger[id].deposited

\* A stream partly withdrawn and then cancelled: receiver and sender have both
\* been paid, the receiver in two transfers, and the contract holds nothing.
C19_Witness ==
  /\ Cancelled
  /\ last.before.withdrawn > 0
  /\ ledger[last.id].to_receiver > last.before.withdrawn
  /\ ledger[last.id].to_sender > 0
  /\ Held(last.id) = 0

(***************************************************************************)
(* C20.  Full settlement at maturity.  As claimed: for every non-cancelled *)
(* stream and every time now >= end_date, a successful                     *)
(* withdraw_stream(id, 0) leaves withdrawn == amount, streams with         *)
(* cliff_date == end_date included.  As it holds: the same for every       *)
(* now >= end_date with now > cliff_date; at now == end_date == cliff_date *)
(* the call succeeds with 0 and leaves the record, with nothing withdrawn, *)
(* as it was.                                                              *)
(***************************************************************************)
\* A withdraw_stream(id, 0) has just succeeded at or after end_date.
ZeroAtMaturity ==
  /\ OnStream("withdraw_stream") /\ last.status = "Ok"
  /\ last.amount = 0
  /\ ~last.before.is_cancelled
  /\ last.time >= last.before.end_date

C20_AsClaimed ==
  ZeroAtMaturity => streams[last.id].withdrawn = streams[last.id].amount

C20_SettlesPastCliff ==
  ZeroAtMaturity =>
    IF last.time > last.before.cliff_date
      THEN /\ streams[last.id].withdrawn = streams[last.id].amount
           /\ last.value = <<last.before.amount - last.before.withdrawn>>
      ELSE /\ last.time = last.before.end_date
           /\ last.before.cliff_date = last.before.end_date
           /\ last.value = <<0>>
           /\ last.effects = << >>
           /\ streams[last.id] = last.before
           /\ last.before.withdrawn = 0

\* A stream whose cliff is its end, settled in full by one call after the end.
C20_Witness ==
  /\ ZeroAtMaturity
  /\ last.before.cliff_date = last.before.end_date
  /\ last.time > last.before.end_date
  /\ last.before.withdrawn = 0
  /\ streams[last.id].withdrawn = streams[last.id].amount

====
